---- MODULE Spec2Model ----
(***************************************************************************)
(* A model of cargo-contract's src/util.rs: the template unzipper `unzip`, *)
(* the subprocess wrapper `invoke_cargo`, `decode_hex`, and the test       *)
(* helper `with_new_contract_project` with its global COUNTER.             *)
(*                                                                         *)
(* Strings and file contents are sequences of byte values (Rust `str` is   *)
(* UTF-8, `&[u8]` is bytes).  Option<T> is a sequence of length 0 or 1.    *)
(***************************************************************************)
EXTENDS Integers, Sequences, FiniteSets, TLC

VARIABLES
    \* unzip(template, out_dir, name)
    template,    \* the archive buffer: [eocd, members]
    name,        \* Option<&str>: <<>> or <<bytes>>
    umask,       \* the process umask (decides the mode of what is created)
    fs,          \* the file system under out_dir: path -> entry
    fs0,         \* the file system when unzip was called (history)
    pc,          \* position of unzip
    i,           \* loop index of `for i in 0..archive.len()`
    result,      \* the Result unzip returned ("none" while running)
    created,     \* paths this call created (history)
    written,     \* member indices whose write_all completed (history)
    \* placeholder substitution applied to one text (lines 261-265)
    contents,    \* the member text read by read_to_string
    subst_name,  \* the project name
    replaced,    \* the text handed to write_all
    subst_pc,
    \* decode_hex(input)
    input,
    decoded,
    hex_pc,
    \* invoke_cargo(command, args, working_dir, verbosity, env)
    command,
    args,
    verbosity,
    cmd,         \* the argument list of the Command being built
    cargo_pc,
    cargo_result,
    \* tests::with_new_contract_project, called from test threads
    COUNTER,
    thread_pc,
    unique_name, \* per thread: the COUNTER value its current call obtained
    handed       \* every value handed out so far, in order (history)

uvars == <<template, name, umask, fs, fs0, pc, i, result, created, written>>
svars == <<contents, subst_name, replaced, subst_pc>>
hvars == <<input, decoded, hex_pc>>
cvars == <<command, args, verbosity, cmd, cargo_pc, cargo_result>>
tvars == <<COUNTER, thread_pc, unique_name, handed>>
vars == <<uvars, svars, hvars, cvars, tvars>>

None == <<>>
Some(x) == <<x>>

(***************************************************************************)
(* Text: string literals as byte sequences.                                *)
(***************************************************************************)

\* The ASCII code of a character given as a one-character string.
Digits == <<"0", "1", "2", "3", "4", "5", "6", "7", "8", "9">>
Uppers ==
    <<"A", "B", "C", "D", "E", "F", "G", "H", "I", "J", "K", "L", "M",
      "N", "O", "P", "Q", "R", "S", "T", "U", "V", "W", "X", "Y", "Z">>
Lowers ==
    <<"a", "b", "c", "d", "e", "f", "g", "h", "i", "j", "k", "l", "m",
      "n", "o", "p", "q", "r", "s", "t", "u", "v", "w", "x", "y", "z">>

IndexOf(c, table) == CHOOSE k \in 1..Len(table) : table[k] = c

Code(c) ==
    CASE c = " " -> 32
      [] c = "-" -> 45
      [] c = "_" -> 95
      [] c = "{" -> 123
      [] c = "}" -> 125
      [] \E k \in 1..10 : Digits[k] = c -> 47 + IndexOf(c, Digits)
      [] \E k \in 1..26 : Uppers[k] = c -> 64 + IndexOf(c, Uppers)
      [] \E k \in 1..26 : Lowers[k] = c -> 96 + IndexOf(c, Lowers)

\* The UTF-8 bytes of a literal given as a sequence of one-character strings.
Bytes(chars) == [k \in 1..Len(chars) |-> Code(chars[k])]

\* "{{name}}" and "{{camel_name}}" (lines 263, 264)
NameToken == Bytes(<<"{", "{", "n", "a", "m", "e", "}", "}">>)
CamelToken ==
    Bytes(<<"{", "{", "c", "a", "m", "e", "l", "_", "n", "a", "m", "e", "}", "}">>)

IsLower(b) == b \in 97..122
IsUpper(b) == b \in 65..90
IsAlnum(b) == IsLower(b) \/ IsUpper(b) \/ b \in 48..57
ToUpper(b) == IF IsLower(b) THEN b - 32 ELSE b
ToLower(b) == IF IsUpper(b) THEN b + 32 ELSE b

StartsWith(s, pat) == Len(s) >= Len(pat) /\ SubSeq(s, 1, Len(pat)) = pat

\* str::replace(from, to): the non-overlapping matches of `from`, found left to
\* right in s, are each replaced by `to`; what is inserted is not searched.
RECURSIVE Replace(_, _, _)
Replace(s, from, to) ==
    IF Len(s) < Len(from) THEN s
    ELSE IF StartsWith(s, from)
         THEN to \o Replace(SubSeq(s, Len(from) + 1, Len(s)), from, to)
         ELSE <<Head(s)>> \o Replace(Tail(s), from, to)

\* capitalize of heck: first character upper-cased, the rest lower-cased.
Capitalize(w) ==
    [k \in 1..Len(w) |-> IF k = 1 THEN ToUpper(w[k]) ELSE ToLower(w[k])]

\* transform of heck on one alphanumeric run `word`: the scan at position k with
\* the current sub-word starting at init, in mode "Boundary", "Lowercase" or
\* "Uppercase"; every sub-word is capitalized and there is no separator.
RECURSIVE CamelScan(_, _, _, _)
CamelScan(word, k, init, mode) ==
    IF k > Len(word) THEN <<>>
    ELSE IF k = Len(word) THEN Capitalize(SubSeq(word, init, Len(word)))
    ELSE LET c == word[k]
             next == word[k + 1]
             next_mode == IF IsLower(c) THEN "Lowercase"
                          ELSE IF IsUpper(c) THEN "Uppercase" ELSE mode
         IN  IF next_mode = "Lowercase" /\ IsUpper(next)
             THEN Capitalize(SubSeq(word, init, k))
                      \o CamelScan(word, k + 1, k + 1, "Boundary")
             ELSE IF mode = "Uppercase" /\ IsUpper(c) /\ IsLower(next)
             THEN Capitalize(SubSeq(word, init, k - 1))
                      \o CamelScan(word, k + 1, k, "Boundary")
             ELSE CamelScan(word, k + 1, init, next_mode)

\* Where the first maximal run of alphanumerics ends: the index of the first
\* non-alphanumeric byte of s, or Len(s) + 1.
RECURSIVE SplitAt(_, _)
SplitAt(s, k) ==
    IF k > Len(s) \/ ~IsAlnum(s[k]) THEN k ELSE SplitAt(s, k + 1)

\* heck::ToUpperCamelCase::to_upper_camel_case (line 264): s is split at every
\* non-alphanumeric character and each piece goes through the scan.
RECURSIVE to_upper_camel_case(_)
to_upper_camel_case(s) ==
    IF s = <<>> THEN <<>>
    ELSE LET e == SplitAt(s, 1)
         IN  CamelScan(SubSeq(s, 1, e - 1), 1, 1, "Boundary")
                 \o to_upper_camel_case(SubSeq(s, e + 1, Len(s)))

\* Lines 263-264: the two replacements, the second applied to the result of
\* the first.
Substitute(text, n) ==
    Replace(Replace(text, NameToken, n), CamelToken, to_upper_camel_case(n))

(***************************************************************************)
(* unzip: the archive, the paths and the file system.                      *)
(***************************************************************************)

MaxMembers == 2

\* String::from_utf8 as read_to_string applies it (line 262): whether the
\* bytes from position k on are well-formed UTF-8.
RECURSIVE Utf8From(_, _)
Utf8From(b, k) ==
    LET Cont(j) == j <= Len(b) /\ b[j] \in 128..191
    IN  IF k > Len(b) THEN TRUE
        ELSE IF b[k] < 128 THEN Utf8From(b, k + 1)
        ELSE IF b[k] \in 194..223 THEN Cont(k + 1) /\ Utf8From(b, k + 2)
        ELSE IF b[k] \in 224..239
             THEN /\ Cont(k + 1) /\ Cont(k + 2)
                  /\ (b[k] = 224 => b[k + 1] >= 160)
                  /\ (b[k] = 237 => b[k + 1] <= 159)
                  /\ Utf8From(b, k + 3)
        ELSE IF b[k] \in 240..244
             THEN /\ Cont(k + 1) /\ Cont(k + 2) /\ Cont(k + 3)
                  /\ (b[k] = 240 => b[k + 1] >= 144)
                  /\ (b[k] = 244 => b[k + 1] <= 143)
                  /\ Utf8From(b, k + 4)
        ELSE FALSE

Utf8Valid(b) == Utf8From(b, 1)

\* Member names as the archive stores them, one character per element:
\* "a", "d", "d/" and "d/b".
MemberNames == {<<"a">>, <<"d">>, <<"d", "/">>, <<"d", "/", "b">>}

\* (*file.name()).ends_with('/')  (line 240)
IsDirName(nm) == nm # <<>> /\ nm[Len(nm)] = "/"

\* out_dir.join(file.name()) (line 238) as the list of the components below
\* out_dir: the name split at '/', empty components dropped.
RECURSIVE Components(_)
Components(nm) ==
    IF nm = <<>> THEN <<>>
    ELSE IF Head(nm) = "/" THEN Components(Tail(nm))
    ELSE IF Len(nm) >= 2 /\ nm[2] # "/"
         THEN LET rest == Components(Tail(nm))
              IN  <<Head(nm) \o Head(rest)>> \o Tail(rest)
         ELSE <<Head(nm)>> \o Components(Tail(nm))

Root == <<>>
AllPaths == {Root} \cup {Components(nm) : nm \in MemberNames}

\* Path::parent (line 243)
Parent(p) == SubSeq(p, 1, Len(p) - 1)

Absent == [kind |-> "none", bytes |-> <<>>, perm |-> 0]

\* Bitwise and, for `mode & !umask`.
RECURSIVE BitAnd(_, _)
BitAnd(a, b) ==
    IF a = 0 \/ b = 0 THEN 0
    ELSE (a % 2) * (b % 2) + 2 * BitAnd(a \div 2, b \div 2)

\* The permission bits of what open(2) and mkdir(2) create: 0o666 and 0o777
\* less the umask.
NewFile(um) == [kind |-> "file", bytes |-> <<>>, perm |-> 438 - BitAnd(438, um)]
NewDir(um) == [kind |-> "dir", bytes |-> <<>>, perm |-> 511 - BitAnd(511, um)]

\* Member contents: the text "{{name}}" and one byte that is not UTF-8.
MemberContents == {NameToken, <<255>>}

\* ZipFile::unix_mode(): None, or the recorded st_mode (0o100750).
UnixModes == {None, Some(33256)}

Members ==
    {[name |-> nm, bytes |-> IF IsDirName(nm) THEN <<>> ELSE b, unix_mode |-> m] :
        nm \in MemberNames, b \in MemberContents, m \in UnixModes}

\* The template buffer: its members, whether its end-of-central-directory
\* record and central directory can be read (eocd), and the index of a member
\* whose local file header is damaged, if there is one.  The damaged member is
\* the last one here: what follows a damaged member is never read.
Templates ==
    {[eocd |-> e, members |-> ms,
      damaged |-> IF e /\ bad /\ ms # <<>> THEN Some(Len(ms) - 1) ELSE None] :
        e \in BOOLEAN,
        ms \in UNION {[1..n -> Members] : n \in 0..MaxMembers},
        bad \in BOOLEAN}

ProjectNames == {None, Some(Bytes(<<"m", "y", "_", "a", "p", "p">>))}

\* The umask of the process: 0o022.
Umasks == {18}

\* A file that is on disk before the call: content "old", mode 0o640.
OldFile == [kind |-> "file", bytes |-> Bytes(<<"o", "l", "d">>), perm |-> 416]
OldDir == [kind |-> "dir", bytes |-> <<>>, perm |-> 493]

\* The file system with exactly the entries of `have`.
FsWith(have) == [p \in AllPaths |-> IF p \in DOMAIN have THEN have[p] ELSE Absent]

\* Destinations unzip is called on: out_dir missing, empty, or holding a
\* file or directory where the archive has a member.
InitialFs ==
    {FsWith(<<>>),
     FsWith(Root :> OldDir),
     FsWith(Root :> OldDir @@ <<"a">> :> OldFile),
     FsWith(Root :> OldDir @@ <<"d">> :> OldFile),
     FsWith(Root :> OldDir @@ <<"d">> :> OldDir @@ <<"d", "b">> :> OldFile)}

(***************************************************************************)
(* unzip: the file-system calls it makes.                                  *)
(***************************************************************************)

\* fs::create_dir_all (lines 241, 245): mkdir(p); when an ancestor is missing,
\* the ancestors first and then p again; an existing directory is success.
\* `budget` is the number of directories the environment lets this call
\* create before mkdir fails (disk full, permission denied).  What was created
\* before a failure stays.
RECURSIVE create_dir_all(_, _, _, _)
create_dir_all(f, p, um, budget) ==
    LET Mkdir(g, left) ==
            IF left > 0
            THEN [ok |-> TRUE, fs |-> [g EXCEPT ![p] = NewDir(um)], budget |-> left - 1]
            ELSE [ok |-> FALSE, fs |-> g, budget |-> 0]
    IN  IF f[p].kind # "none"
        THEN [ok |-> f[p].kind = "dir", fs |-> f, budget |-> budget]
        ELSE IF p = Root \/ f[Parent(p)].kind = "dir" THEN Mkdir(f, budget)
        ELSE IF f[Parent(p)].kind = "file"
        THEN [ok |-> FALSE, fs |-> f, budget |-> budget]
        ELSE LET up == create_dir_all(f, Parent(p), um, budget)
             IN  IF up.ok THEN Mkdir(up.fs, up.budget) ELSE up

\* How many directories create_dir_all(p) has to create at most.
Depth(p) == Len(p) + 1

\* OpenOptions::new().write(true).create_new(true).open(outpath), with the
\* map_err of lines 248-258: O_CREAT|O_EXCL fails on anything that exists.
\* `env_ok` is whether the environment lets a new file be created.
OpenTruncating(f, p, um, env_ok) ==
    IF f[p].kind = "dir" THEN [res |-> "IoError", fs |-> f]
    ELSE IF f[Parent(p)].kind # "dir" \/ ~env_ok THEN [res |-> "IoError", fs |-> f]
    ELSE [res |-> "Ok",
          fs |-> [f EXCEPT ![p] = IF f[p].kind = "file"
                                  THEN [f[p] EXCEPT !.bytes = <<>>]
                                  ELSE NewFile(um)]]

OpenCreateNew(f, p, um, env_ok) ==
    IF f[p].kind # "none" THEN [res |-> "FileAlreadyExists", fs |-> f]
    ELSE IF f[Parent(p)].kind # "dir" \/ ~env_ok THEN [res |-> "IoError", fs |-> f]
    ELSE [res |-> "Ok", fs |-> [f EXCEPT ![p] = NewFile(um)]]

\* U+FFFD for every byte that is not UTF-8, as String::from_utf8_lossy gives
\* for isolated bad bytes.
Lossy(b) ==
    IF Utf8Valid(b) THEN b
    ELSE Replace(b, <<255>>, <<239, 191, 189>>)

OutputLossy(b, nm) ==
    IF nm = None THEN [ok |-> TRUE, bytes |-> Lossy(b)]
    ELSE IF Utf8Valid(b) THEN [ok |-> TRUE, bytes |-> Substitute(b, nm[1])]
    ELSE [ok |-> FALSE, bytes |-> <<>>]

OutputSkipping(b, nm) ==
    IF nm = None \/ ~Utf8Valid(b) THEN [ok |-> TRUE, bytes |-> b]
    ELSE [ok |-> TRUE, bytes |-> Substitute(b, nm[1])]

\* Lines 260-270: what is handed to write_all for a member with bytes b.  With
\* a name, read_to_string (fails on bytes that are not UTF-8) and the two
\* replacements; without, read_to_end and the bytes as they are.
Output(b, nm) ==
    IF nm = None THEN [ok |-> TRUE, bytes |-> b]
    ELSE IF Utf8Valid(b) THEN [ok |-> TRUE, bytes |-> Substitute(b, nm[1])]
    ELSE [ok |-> FALSE, bytes |-> <<>>]

SetPermissionsSkipped(f, p, mode) == f

\* fs::set_permissions(&outpath, Permissions::from_mode(mode)) (line 279):
\* chmod(2) keeps the twelve permission bits of mode.
SetPermissions(f, p, mode) == [f EXCEPT ![p].perm = mode % 4096]

AbortRollingBack(f, made) == [p \in DOMAIN f |-> IF p \in made THEN Absent ELSE f[p]]

\* The `?` of lines 237-279: the error is returned at once and the file system
\* stays as the calls so far left it; `made` (the files this call created) is
\* not looked at.
Abort(f, made) == f

ArchiveNewLenient(t) == [ok |-> TRUE, members |-> t.members]

\* zip::ZipArchive::new(cursor) (line 234): the member list, or an error when
\* the central directory cannot be read.  Local file headers are not read here.
ArchiveNew(t) ==
    IF t.eocd THEN [ok |-> TRUE, members |-> t.members]
    ELSE [ok |-> FALSE, members |-> <<>>]

(***************************************************************************)
(* unzip: the state machine, one action per call that can fail.            *)
(***************************************************************************)

archive == ArchiveNew(template).members
\* archive.by_index(i), i counted from 0
file == archive[i + 1]
outpath == Components(file.name)

Return(r, f) ==
    /\ pc' = "returned"
    /\ result' = r
    /\ fs' = IF r = "Ok" THEN f ELSE Abort(f, created)
    /\ UNCHANGED <<template, name, umask, fs0, i>>

\* Lines 230-234.
Open ==
    /\ pc = "open"
    /\ IF ArchiveNew(template).ok
       THEN /\ pc' = "loop"
            /\ UNCHANGED <<template, name, umask, fs, fs0, i, result>>
       ELSE Return("ArchiveCorrupt", fs)
    /\ UNCHANGED <<created, written, svars, hvars, cvars, tvars>>

\* Line 236 with i = archive.len(), and line 284.
Finish ==
    /\ pc = "loop" /\ i = Len(archive)
    /\ Return("Ok", fs)
    /\ UNCHANGED <<created, written, svars, hvars, cvars, tvars>>

\* Lines 236-238: archive.by_index(i) reads the local file header of member i.
ByIndex ==
    /\ pc = "loop" /\ i < Len(archive)
    /\ IF template.damaged = Some(i)
       THEN Return("ArchiveCorrupt", fs)
       ELSE /\ pc' = "member"
            /\ UNCHANGED <<template, name, umask, fs, fs0, i, result>>
    /\ UNCHANGED <<created, written, svars, hvars, cvars, tvars>>

\* Lines 240-241: a directory member.
CreateDir ==
    /\ pc = "member" /\ IsDirName(file.name)
    /\ \E budget \in 0..Depth(outpath) :
          LET r == create_dir_all(fs, outpath, umask, budget)
          IN  IF r.ok
              THEN /\ fs' = r.fs
                   /\ pc' = "permissions"
                   /\ UNCHANGED <<template, name, umask, fs0, i, result>>
              ELSE Return("IoError", r.fs)
    /\ UNCHANGED <<created, written, svars, hvars, cvars, tvars>>

\* Lines 242-247: a file member, its parent directory.
EnsureParent ==
    /\ pc = "member" /\ ~IsDirName(file.name)
    /\ IF fs[Parent(outpath)].kind # "none"
       THEN /\ pc' = "create"
            /\ UNCHANGED <<template, name, umask, fs, fs0, i, result>>
       ELSE \E budget \in 0..Depth(Parent(outpath)) :
               LET r == create_dir_all(fs, Parent(outpath), umask, budget)
               IN  IF r.ok
                   THEN /\ fs' = r.fs
                        /\ pc' = "create"
                        /\ UNCHANGED <<template, name, umask, fs0, i, result>>
                   ELSE Return("IoError", r.fs)
    /\ UNCHANGED <<created, written, svars, hvars, cvars, tvars>>

\* Lines 248-258.
CreateNew ==
    /\ pc = "create"
    /\ \E env_ok \in BOOLEAN :
          LET r == OpenCreateNew(fs, outpath, umask, env_ok)
          IN  IF r.res = "Ok"
              THEN /\ fs' = r.fs
                   /\ pc' = "write"
                   /\ created' = created \cup {outpath}
                   /\ UNCHANGED <<template, name, umask, fs0, i, result>>
              ELSE /\ Return(r.res, r.fs)
                   /\ UNCHANGED created
    /\ UNCHANGED <<written, svars, hvars, cvars, tvars>>

\* Lines 260-270.  A write_all that fails may have written any proper prefix.
WriteContents ==
    /\ pc = "write"
    /\ LET out == Output(file.bytes, name)
       IN  IF ~out.ok
           THEN /\ Return("NonUtf8TextMember", fs)
                /\ UNCHANGED written
           ELSE \/ /\ fs' = [fs EXCEPT ![outpath].bytes = out.bytes]
                   /\ pc' = "permissions"
                   /\ written' = written \cup {i}
                   /\ UNCHANGED <<template, name, umask, fs0, i, result>>
                \/ /\ \E k \in 0..(Len(out.bytes) - 1) :
                         Return("IoError",
                                [fs EXCEPT ![outpath].bytes = SubSeq(out.bytes, 1, k)])
                   /\ UNCHANGED written
    /\ UNCHANGED <<created, svars, hvars, cvars, tvars>>

\* Lines 273-282 (cfg(unix)), and the step of the loop.
Permissions ==
    /\ pc = "permissions"
    /\ IF file.unix_mode # None
       THEN \/ /\ fs' = SetPermissions(fs, outpath, file.unix_mode[1])
               /\ pc' = "loop"
               /\ i' = i + 1
               /\ UNCHANGED <<template, name, umask, fs0, result>>
            \/ Return("IoError", fs)
       ELSE /\ pc' = "loop"
            /\ i' = i + 1
            /\ UNCHANGED <<template, name, umask, fs, fs0, result>>
    /\ UNCHANGED <<created, written, svars, hvars, cvars, tvars>>

UnzipIdle ==
    /\ template = [eocd |-> FALSE, members |-> <<>>, damaged |-> None]
    /\ name = None
    /\ umask = 18
    /\ fs = FsWith(<<>>)
    /\ fs0 = fs
    /\ pc = "idle"
    /\ i = 0
    /\ result = "none"
    /\ created = {}
    /\ written = {}

SubstIdle ==
    /\ contents = <<>>
    /\ subst_name = <<>>
    /\ replaced = <<>>
    /\ subst_pc = "idle"

HexIdle ==
    /\ input = <<>>
    /\ decoded = [ok |-> TRUE, bytes |-> <<>>]
    /\ hex_pc = "idle"

CargoIdle ==
    /\ command = ""
    /\ args = <<>>
    /\ verbosity = "Default"
    /\ cmd = <<>>
    /\ cargo_pc = "idle"
    /\ cargo_result = "none"

CounterIdle ==
    /\ COUNTER = 0
    /\ thread_pc = <<>>
    /\ unique_name = <<>>
    /\ handed = <<>>

Init ==
    /\ template \in Templates
    /\ name \in ProjectNames
    /\ umask \in Umasks
    /\ fs \in InitialFs
    /\ fs0 = fs
    /\ pc = "open"
    /\ i = 0
    /\ result = "none"
    /\ created = {}
    /\ written = {}
    /\ SubstIdle /\ HexIdle /\ CargoIdle /\ CounterIdle

Next ==
    \/ Open
    \/ Finish
    \/ ByIndex
    \/ CreateDir
    \/ EnsureParent
    \/ CreateNew
    \/ WriteContents
    \/ Permissions

Spec == Init /\ [][Next]_vars

(***************************************************************************)
(* Properties of unzip.                                                    *)
(***************************************************************************)

Indices == 0..(Len(archive) - 1)
NameOf(k) == archive[k + 1].name
PathOf(k) == Components(NameOf(k))
IsFile(k) == ~IsDirName(NameOf(k))
BytesOf(k) == archive[k + 1].bytes
ModeOf(k) == archive[k + 1].unix_mode
Failed == pc = "returned" /\ result # "Ok"

\* The members unzip has begun to extract.
Started ==
    {k \in Indices :
        k < i \/ (k = i /\ pc \in {"create", "write", "permissions", "returned"})}

\* p is the target path of member k or one of its ancestors.
BelongsTo(p, k) == Len(p) <= Len(PathOf(k)) /\ SubSeq(PathOf(k), 1, Len(p)) = p

\* The permission bits a finished file member k must have.
ExpectedPerm(k) ==
    IF ModeOf(k) = None THEN NewFile(umask).perm ELSE ModeOf(k)[1] % 4096

\* C1: a file that exists at a non-directory member's target path when unzip
\* gets to creating it makes unzip return FileAlreadyExists there and then,
\* and every file that was on disk before the call keeps its content: a file
\* that differs from what was there before is one this call created.
C1_AntiClobber ==
    /\ [](\A p \in AllPaths :
            /\ fs0[p].kind = "file" => fs[p] = fs0[p]
            /\ fs[p].kind = "file" /\ fs[p] # fs0[p] => p \in created)
    /\ [][pc = "create" /\ fs[outpath].kind = "file"
            => pc' = "returned" /\ result' = "FileAlreadyExists" /\ fs' = fs]_vars

C1_Witness ==
    /\ Failed /\ result = "FileAlreadyExists"
    /\ fs0[outpath] = OldFile /\ fs[outpath] = OldFile
    /\ written # {}

\* C2: without a name, a successful unzip leaves at every non-directory
\* member's path a file holding exactly the member's bytes.
C2_BinarySafe ==
    name = None =>
        /\ \A k \in written : fs[PathOf(k)].bytes = BytesOf(k)
        /\ pc = "returned" /\ result = "Ok" =>
              \A k \in Indices : IsFile(k) =>
                  fs[PathOf(k)].kind = "file" /\ fs[PathOf(k)].bytes = BytesOf(k)

C2_Witness ==
    /\ name = None /\ pc = "returned" /\ result = "Ok"
    /\ \E k \in Indices : IsFile(k) /\ ~Utf8Valid(BytesOf(k))
    /\ \E k \in Indices : IsFile(k) /\ BytesOf(k) = NameToken

\* What a finished member k has left on disk.
Completed(k) ==
    IF IsFile(k)
    THEN /\ k \in written
         /\ fs[PathOf(k)].kind = "file"
         /\ fs[PathOf(k)].bytes = Output(BytesOf(k), name).bytes
         /\ fs[PathOf(k)].perm = ExpectedPerm(k)
    ELSE fs[PathOf(k)].kind = "dir"

\* C4: members are extracted in archive order, one at a time: at any moment,
\* and so when unzip has failed at member i, every member before i is on disk
\* as it was written, member i is the only one that can be half done, and a
\* path that belongs to no member up to i is as it was before the call.
C4_InOrderNoRollback ==
    ArchiveNew(template).ok =>
        /\ i \in 0..Len(archive)
        /\ written \subseteq Started
        /\ \A k \in Indices : k < i => Completed(k)
        /\ \A p \in AllPaths :
              (\A k \in Started : ~BelongsTo(p, k)) => fs[p] = fs0[p]
        /\ Failed => i < Len(archive)

C4_Witness ==
    /\ Failed /\ Len(archive) = MaxMembers /\ i = MaxMembers - 1
    /\ IsFile(0) /\ 0 \in written /\ fs0[PathOf(0)].kind = "none"

C4_WitnessUntouched ==
    /\ Failed /\ i = 0 /\ Len(archive) > 1
    /\ ~BelongsTo(PathOf(1), 0) /\ created # {}

\* A template that is not a well-formed archive.
Malformed == ~template.eocd \/ template.damaged # None

\* C5 as stated: whatever is malformed about the template, unzip returns an
\* error with the file system, out_dir included, as it was.
C5_MalformedWritesNothing ==
    Malformed =>
        /\ fs = fs0
        /\ pc = "returned" => result # "Ok"

\* C5, amended: a template whose central directory cannot be read makes unzip
\* return ArchiveCorrupt with the file system, out_dir included, as it was;
\* a damaged local file header is found when the loop gets to that member,
\* and then only paths of the members before it have changed.
C5_CorruptDirectoryWritesNothing ==
    /\ ~template.eocd =>
          /\ fs = fs0
          /\ created = {}
          /\ pc = "returned" => result = "ArchiveCorrupt"
    /\ template.eocd /\ template.damaged # None =>
          /\ i <= template.damaged[1]
          /\ pc = "returned" /\ i = template.damaged[1] => result = "ArchiveCorrupt"
          /\ \A p \in AllPaths :
                (\A k \in Indices : k < i => ~BelongsTo(p, k)) /\ i = template.damaged[1]
                    => fs[p] = fs0[p]

C5_Witness ==
    /\ ~template.eocd /\ pc = "returned" /\ result = "ArchiveCorrupt"
    /\ template.members # <<>> /\ fs[Root].kind = "none"

\* C6: with a name, every file member unzip is past went through the
\* substitution (its file holds the substituted text of a UTF-8 member),
\* none was skipped, and reaching the write of a member that is not UTF-8
\* makes unzip return NonUtf8TextMember.
C6_SubstitutionNeverSkipped ==
    /\ [](name # None =>
            /\ \A k \in written :
                  /\ Utf8Valid(BytesOf(k))
                  /\ fs[PathOf(k)].bytes = Substitute(BytesOf(k), name[1])
            /\ \A k \in Indices : k < i /\ IsFile(k) => k \in written)
    /\ [][name # None /\ pc = "write" /\ ~Utf8Valid(file.bytes)
            => pc' = "returned" /\ result' = "NonUtf8TextMember"]_vars

C6_Witness ==
    /\ name # None /\ Failed /\ result = "NonUtf8TextMember"
    /\ written # {} /\ fs[outpath].kind = "file" /\ fs[outpath].bytes = <<>>

\* Whether a directory member before i, other than k, set the mode of k's path.
ModeSetAfter(k) ==
    \E j \in Indices : j > k /\ j < i /\ PathOf(j) = PathOf(k) /\ ModeOf(j) # None
ModeSetBy(p) ==
    \E j \in Indices : j < i /\ PathOf(j) = p /\ ModeOf(j) # None

\* C7: a member's recorded permission bits are applied to its path, after its
\* content is complete: while the content is being written the file has the
\* mode it was created with, a finished file member has its recorded bits (or
\* the mode it was created with when none are recorded), and so has a finished
\* directory member unless a later member of the same path set others.
C7_PermissionsAfterWrite ==
    ArchiveNew(template).ok =>
        /\ pc = "write" => fs[outpath].perm = NewFile(umask).perm /\ i \notin written
        /\ pc = "permissions" /\ IsFile(i) =>
              /\ i \in written
              /\ fs[outpath].bytes = Output(file.bytes, name).bytes
              /\ fs[outpath].perm = NewFile(umask).perm
        /\ \A k \in Indices : k < i /\ IsFile(k) =>
              fs[PathOf(k)].perm = ExpectedPerm(k)
        /\ \A k \in Indices : k < i /\ ~IsFile(k) =>
              IF ModeOf(k) # None
              THEN ModeSetAfter(k) \/ fs[PathOf(k)].perm = ModeOf(k)[1] % 4096
              ELSE ModeSetBy(PathOf(k)) \/
                   fs[PathOf(k)].perm = IF fs0[PathOf(k)].kind = "dir"
                                        THEN fs0[PathOf(k)].perm
                                        ELSE NewDir(umask).perm

C7_Witness ==
    /\ pc = "returned" /\ result = "Ok"
    /\ \E k \in Indices : IsFile(k) /\ ModeOf(k) # None
                           /\ fs[PathOf(k)].perm # NewFile(umask).perm
    /\ \E k \in Indices : IsFile(k) /\ ModeOf(k) = None

(***************************************************************************)
(* The placeholder substitution on its own (lines 261-265).                *)
(***************************************************************************)

MaxFragments == 3

\* Pieces of template text: "{{name}}", "{{camel_name}}", "{{", "_name}}",
\* "}}" and "x".
Fragments ==
    {NameToken,
     CamelToken,
     Bytes(<<"{", "{">>),
     Bytes(<<"_", "n", "a", "m", "e", "}", "}">>),
     Bytes(<<"}", "}">>),
     Bytes(<<"x">>)}

RECURSIVE Concat(_)
Concat(parts) == IF parts = <<>> THEN <<>> ELSE Head(parts) \o Concat(Tail(parts))

Texts == {Concat(parts) : parts \in UNION {[1..n -> Fragments] : n \in 0..MaxFragments}}

\* Project names: "camel", "my-cool-thing", "my_app" and "fooBar".
SubstNames ==
    {Bytes(<<"c", "a", "m", "e", "l">>),
     Bytes(<<"m", "y", "-", "c", "o", "o", "l", "-", "t", "h", "i", "n", "g">>),
     Bytes(<<"m", "y", "_", "a", "p", "p">>),
     Bytes(<<"f", "o", "o", "B", "a", "r">>)}

SubstInit ==
    /\ contents \in Texts
    /\ subst_name \in SubstNames
    /\ replaced = <<>>
    /\ subst_pc = "read"
    /\ UnzipIdle /\ HexIdle /\ CargoIdle /\ CounterIdle

\* Line 263.
ReplaceName ==
    /\ subst_pc = "read"
    /\ replaced' = Replace(contents, NameToken, subst_name)
    /\ subst_pc' = "named"
    /\ UNCHANGED <<contents, subst_name, uvars, hvars, cvars, tvars>>

\* Lines 264-265.
ReplaceCamelName ==
    /\ subst_pc = "named"
    /\ replaced' = Replace(replaced, CamelToken, to_upper_camel_case(subst_name))
    /\ subst_pc' = "done"
    /\ UNCHANGED <<contents, subst_name, uvars, hvars, cvars, tvars>>

SubstNext == ReplaceName \/ ReplaceCamelName

SpecSubst == SubstInit /\ [][SubstNext]_vars

\* One pass over the text in which "{{name}}" becomes n and "{{camel_name}}"
\* becomes camel, and what a replacement inserts is not looked at again.
RECURSIVE SinglePass(_, _, _)
SinglePass(text, n, camel) ==
    IF text = <<>> THEN <<>>
    ELSE IF StartsWith(text, NameToken)
    THEN n \o SinglePass(SubSeq(text, Len(NameToken) + 1, Len(text)), n, camel)
    ELSE IF StartsWith(text, CamelToken)
    THEN camel \o SinglePass(SubSeq(text, Len(CamelToken) + 1, Len(text)), n, camel)
    ELSE <<Head(text)>> \o SinglePass(Tail(text), n, camel)

\* Whether pat occurs in s.
RECURSIVE Occurs(_, _)
Occurs(pat, s) ==
    Len(s) >= Len(pat) /\ (StartsWith(s, pat) \/ Occurs(pat, Tail(s)))

PlainName(n) == \A k \in 1..Len(n) : IsAlnum(n[k]) \/ n[k] = Code("-") \/ n[k] = Code("_")

\* C3: the text written is the member text with "{{name}}" replaced by the
\* name and "{{camel_name}}" by its upper camel case, text that a replacement
\* inserted is not substituted again, text without a placeholder is unchanged,
\* and "{{name}}" alone yields a plain name as it is.
C3_LiteralReplacementNoNesting ==
    subst_pc = "done" =>
        /\ replaced = SinglePass(contents, subst_name, to_upper_camel_case(subst_name))
        /\ ~Occurs(NameToken, contents) /\ ~Occurs(CamelToken, contents)
              => replaced = contents
        /\ contents = NameToken /\ PlainName(subst_name) => replaced = subst_name

(***************************************************************************)
(* decode_hex (lines 126-133).                                             *)
(***************************************************************************)

MaxHexLen == 6

HexChars == {"0", "x", "a", "F", "g"}
HexInputs == UNION {[1..n -> HexChars] : n \in 0..MaxHexLen}

\* The value of a hexadecimal digit, or -1 (the val of the hex crate).
HexVal(c) ==
    IF \E k \in 1..10 : Digits[k] = c THEN IndexOf(c, Digits) - 1
    ELSE IF \E k \in 1..6 : Lowers[k] = c THEN 9 + IndexOf(c, Lowers)
    ELSE IF \E k \in 1..6 : Uppers[k] = c THEN 9 + IndexOf(c, Uppers)
    ELSE -1

\* hex::decode: an odd length is OddLength; otherwise the pairs of digits in
\* order, and the first character that is no digit is InvalidHexCharacter.
RECURSIVE HexPairs(_)
HexPairs(s) ==
    IF s = <<>> THEN [ok |-> TRUE, bytes |-> <<>>, err |-> "none"]
    ELSE IF HexVal(s[1]) < 0 \/ HexVal(s[2]) < 0
    THEN [ok |-> FALSE, bytes |-> <<>>, err |-> "InvalidHexCharacter"]
    ELSE LET rest == HexPairs(SubSeq(s, 3, Len(s)))
         IN  IF rest.ok
             THEN [rest EXCEPT !.bytes = <<16 * HexVal(s[1]) + HexVal(s[2])>> \o @]
             ELSE rest

hex_decode(s) ==
    IF Len(s) % 2 # 0 THEN [ok |-> FALSE, bytes |-> <<>>, err |-> "OddLength"]
    ELSE HexPairs(s)

\* str::trim_start_matches("0x"): the prefix is removed as often as it matches.
RECURSIVE trim_start_matches(_, _)
trim_start_matches(s, pat) ==
    IF StartsWith(s, pat)
    THEN trim_start_matches(SubSeq(s, Len(pat) + 1, Len(s)), pat)
    ELSE s

\* Lines 127-133.
decode_hex(s) ==
    IF StartsWith(s, <<"0", "x">>)
    THEN hex_decode(trim_start_matches(s, <<"0", "x">>))
    ELSE hex_decode(s)

HexInit ==
    /\ input \in HexInputs
    /\ decoded = [ok |-> TRUE, bytes |-> <<>>, err |-> "none"]
    /\ hex_pc = "call"
    /\ UnzipIdle /\ SubstIdle /\ CargoIdle /\ CounterIdle

Decode ==
    /\ hex_pc = "call"
    /\ decoded' = decode_hex(input)
    /\ hex_pc' = "done"
    /\ UNCHANGED <<input, uvars, svars, cvars, tvars>>

HexNext == Decode

SpecHex == HexInit /\ [][HexNext]_vars

\* The input without one leading "0x", if it has one.
StripOnePrefix(s) == IF StartsWith(s, <<"0", "x">>) THEN SubSeq(s, 3, Len(s)) ELSE s

AllHexDigits(s) == \A k \in 1..Len(s) : HexVal(s[k]) >= 0

\* The bytes an even-length sequence of hexadecimal digits spells.
Spelled(s) == [k \in 1..(Len(s) \div 2) |-> 16 * HexVal(s[2 * k - 1]) + HexVal(s[2 * k])]

\* C9: decode_hex gives the same for "0x" + s as for s, and it succeeds, with
\* the bytes the digits spell, exactly when the input less one optional
\* leading "0x" is an even number of hexadecimal digits; otherwise it fails
\* with InvalidHexCharacter or OddLength.
C9_OneOptionalPrefix ==
    hex_pc = "done" =>
        LET rest == StripOnePrefix(input)
            wellFormed == Len(rest) % 2 = 0 /\ AllHexDigits(rest)
        IN  /\ decode_hex(<<"0", "x">> \o input) = decoded
            /\ decoded.ok <=> wellFormed
            /\ decoded.ok => decoded.bytes = Spelled(rest)
            /\ ~decoded.ok => decoded.err \in {"InvalidHexCharacter", "OddLength"}

(***************************************************************************)
(* invoke_cargo (lines 57-116).                                            *)
(***************************************************************************)

MaxArgs == 2

Commands == {"build", "dylint", "metadata"}
ArgWords == {"--release", "--quiet", "--verbose"}
ArgLists == UNION {[1..n -> ArgWords] : n \in 0..MaxArgs}
Verbosities == {"Quiet", "Default", "Verbose"}

VerbosityFlagNoException(c, v) ==
    IF v = "Quiet" THEN <<"--quiet">>
    ELSE IF v = "Verbose" THEN <<"--verbose">>
    ELSE <<>>

\* The match of lines 86-96: what it adds to the Command.
VerbosityFlag(c, v) ==
    IF v = "Quiet" THEN <<"--quiet">>
    ELSE IF v = "Verbose" THEN (IF c # "dylint" THEN <<"--verbose">> ELSE <<>>)
    ELSE <<>>

\* Lines 84-96: cmd.arg(command), cmd.args(args), then the verbosity flag.
CommandLine(c, a, v) == <<c>> \o a \o VerbosityFlag(c, v)

CargoInit ==
    /\ command \in Commands
    /\ args \in ArgLists
    /\ verbosity \in Verbosities
    /\ cmd = <<>>
    /\ cargo_pc = "call"
    /\ cargo_result = "none"
    /\ UnzipIdle /\ SubstIdle /\ HexIdle /\ CounterIdle

\* Lines 69-98.
BuildCommand ==
    /\ cargo_pc = "call"
    /\ cmd' = CommandLine(command, args, verbosity)
    /\ cargo_pc' = "built"
    /\ UNCHANGED <<command, args, verbosity, cargo_result, uvars, svars, hvars, tvars>>

\* Lines 100-104: the child is started, or cannot be.
Spawn ==
    /\ cargo_pc = "built"
    /\ \/ /\ cargo_pc' = "spawned"
          /\ UNCHANGED cargo_result
       \/ /\ cargo_pc' = "returned"
          /\ cargo_result' = "SpawnError"
    /\ UNCHANGED <<command, args, verbosity, cmd, uvars, svars, hvars, tvars>>

\* Lines 105-115: the child exits, with success or not.
WaitWithOutput ==
    /\ cargo_pc = "spawned"
    /\ cargo_pc' = "returned"
    /\ cargo_result' \in {"Ok", "CommandError"}
    /\ UNCHANGED <<command, args, verbosity, cmd, uvars, svars, hvars, tvars>>

CargoNext == BuildCommand \/ Spawn \/ WaitWithOutput

SpecCargo == CargoInit /\ [][CargoNext]_vars

\* C8: the child's arguments are the subcommand, the caller's args in order,
\* and then nothing more but one --quiet for Quiet and one --verbose for
\* Verbose when the subcommand is not dylint; with no args and Quiet they are
\* the subcommand and --quiet.
C8_ArgumentList ==
    cargo_pc # "call" =>
        LET extra == SubSeq(cmd, Len(args) + 2, Len(cmd))
        IN  /\ Len(cmd) >= 1 + Len(args)
            /\ cmd[1] = command
            /\ SubSeq(cmd, 2, Len(args) + 1) = args
            /\ verbosity = "Quiet" => extra = <<"--quiet">>
            /\ verbosity = "Verbose" /\ command # "dylint" => extra = <<"--verbose">>
            /\ verbosity = "Verbose" /\ command = "dylint" => extra = <<>>
            /\ verbosity = "Default" => extra = <<>>
            /\ args = <<>> /\ verbosity = "Quiet" => cmd = <<command, "--quiet">>

C8_Witness ==
    /\ cargo_pc = "spawned" /\ command = "dylint" /\ verbosity = "Verbose"
    /\ args = <<"--release", "--verbose">> /\ cmd = <<"dylint", "--release", "--verbose">>

C8_WitnessQuiet ==
    cargo_pc = "returned" /\ args = <<>> /\ verbosity = "Quiet" /\ Len(cmd) = 2

(***************************************************************************)
(* tests::with_new_contract_project and COUNTER (lines 185-221).           *)
(***************************************************************************)

NumThreads == 3
MaxCalls == 4

Threads == 1..NumThreads

\* An AtomicU32 as its two 16-bit halves.
Zero == [hi |-> 0, lo |-> 0]
Value(c) == c.hi * 65536 + c.lo

fetch_add_racy(c) == [old |-> c, new |-> c]

\* COUNTER.fetch_add(1, Ordering::SeqCst) (line 212): one atomic step that
\* returns the old value and stores old + 1, wrapping at 2^32.
fetch_add(c) ==
    [old |-> c,
     new |-> IF c.lo = 65535
             THEN [hi |-> (c.hi + 1) % 65536, lo |-> 0]
             ELSE [c EXCEPT !.lo = c.lo + 1]]

\* The decimal digits of n, as `{}` formats an integer.
RECURSIVE Decimal(_)
Decimal(n) ==
    IF n < 10 THEN <<Digits[n + 1]>>
    ELSE Decimal(n \div 10) \o <<Digits[(n % 10) + 1]>>

\* format!("new_project_{}", k)  (line 212)
ProjectName(k) == <<"new_project_">> \o Decimal(k)

CounterInit ==
    /\ COUNTER = Zero
    /\ thread_pc = [t \in Threads |-> "idle"]
    /\ unique_name = [t \in Threads |-> None]
    /\ handed = <<>>
    /\ UnzipIdle /\ SubstIdle /\ HexIdle /\ CargoIdle

InFlight == Cardinality({t \in Threads : thread_pc[t] = "tmp_dir"})

\* Lines 207-211 and 176-182: a test calls with_new_contract_project; the
\* temporary directory is made and the closure entered.
Call(t) ==
    /\ thread_pc[t] = "idle"
    /\ Len(handed) + InFlight < MaxCalls
    /\ thread_pc' = [thread_pc EXCEPT ![t] = "tmp_dir"]
    /\ unique_name' = [unique_name EXCEPT ![t] = None]
    /\ UNCHANGED <<COUNTER, handed, uvars, svars, hvars, cvars>>

\* Line 212.
UniqueName(t) ==
    /\ thread_pc[t] = "tmp_dir"
    /\ LET r == fetch_add(COUNTER)
       IN  /\ COUNTER' = r.new
           /\ unique_name' = [unique_name EXCEPT ![t] = Some(ProjectName(Value(r.old)))]
           /\ handed' = Append(handed, ProjectName(Value(r.old)))
    /\ thread_pc' = [thread_pc EXCEPT ![t] = "named"]
    /\ UNCHANGED <<uvars, svars, hvars, cvars>>

\* Lines 214-217: the project is created, or the expect panics and the test
\* thread ends.
Execute(t) ==
    /\ thread_pc[t] = "named"
    /\ \/ thread_pc' = [thread_pc EXCEPT ![t] = "created"]
       \/ thread_pc' = [thread_pc EXCEPT ![t] = "panicked"]
    /\ UNCHANGED <<COUNTER, unique_name, handed, uvars, svars, hvars, cvars>>

\* Lines 219-220: f(manifest_path) runs and the call returns.
RunTest(t) ==
    /\ thread_pc[t] = "created"
    /\ thread_pc' = [thread_pc EXCEPT ![t] = "idle"]
    /\ UNCHANGED <<COUNTER, unique_name, handed, uvars, svars, hvars, cvars>>

CounterNext ==
    \E t \in Threads : Call(t) \/ UniqueName(t) \/ Execute(t) \/ RunTest(t)

SpecCounter == CounterInit /\ [][CounterNext]_vars

\* C10: however the threads interleave, the k-th call to take a name gets
\* new_project_<k-1>: the values handed out are 0, 1, 2, ... with none skipped
\* or repeated, no two calls get the same name, and COUNTER is the number of
\* names handed out.
C10_UniqueNames ==
    /\ \A k \in 1..Len(handed) : handed[k] = ProjectName(k - 1)
    /\ \A j, k \in 1..Len(handed) : j # k => handed[j] # handed[k]
    /\ \A t, u \in Threads :
          t # u /\ thread_pc[t] \in {"named", "created"}
                /\ thread_pc[u] \in {"named", "created"}
              => unique_name[t] # unique_name[u]
    /\ Value(COUNTER) = Len(handed)

C10_Witness ==
    /\ Len(handed) = MaxCalls
    /\ \A t \in Threads : thread_pc[t] \in {"named", "created"}
    /\ unique_name[1] = Some(ProjectName(MaxCalls - 1))

====
